---------------------------- MODULE Spec2Model ----------------------------
(***************************************************************************)
(* Model of custom_components/clash_royale/config_flow.py: the setup       *)
(* wizard ClashRoyaleConfigFlow.  Each wizard run is a flow; a flow holds  *)
(* the two fields set in __init__ (api_token, proxy_url), and the host     *)
(* keeps the list of stored entries.  A step handler runs atomically up to *)
(* its `await session.get(...)`; other flows may run while the GET is in   *)
(* flight, and the handler resumes when the response (or exception)        *)
(* arrives.                                                                *)
(*                                                                         *)
(* Python str values that the code inspects character by character (the    *)
(* player tag) are sequences of one-character strings; opaque str values   *)
(* (token, proxy URL) are TLA+ strings, with None a value of its own.      *)
(***************************************************************************)
EXTENDS Integers, Sequences, FiniteSets, TLC

\* ------------------------------------------------------------- bounds
\* Longest player tag a user types.
MaxTagLen == 2

\* ------------------------------------------------------------- values
Flows == {"f1", "f2"}

None == "<None>"

\* Characters of a typed tag: whitespace, the hash sign, any other character.
Whitespace == {" "}
Alphabet == Whitespace \cup {"#", "T"}

RECURSIVE StringsOfLen(_)
StringsOfLen(n) ==
    IF n = 0 THEN {<<>>}
    ELSE {Append(s, c) : s \in StringsOfLen(n - 1), c \in Alphabet}

Strings == UNION {StringsOfLen(n) : n \in 0..MaxTagLen}

\* What the user may submit to each form.  A dict is a function from keys
\* to values; the empty dict is the function with empty domain.
EmptyDict == [k \in {} |-> None]
ProxyInputs == {EmptyDict, [proxy_url |-> "http://p1"]}
TokenInputs == {EmptyDict, [api_token |-> ""], [api_token |-> "tokA"]}
PlayerInputs == {EmptyDict} \cup {[player_tag |-> s] : s \in Strings}

\* HTTP status codes the remote service (or the proxy) may answer with.
Statuses == {200, 400, 403, 404, 500}

\* Outcome of `async with session.get(...)`: a response with a status, or an
\* exception raised by the GET ("get"), or, for a response whose body the
\* code reads, an exception raised by `await response.text()` ("text").
NoOutcome == [status |-> 0, raises |-> "none"]
Answered(s) == [status |-> s, raises |-> "no"]
GetRaised == [status |-> 0, raises |-> "get"]
TextRaised(s) == [status |-> s, raises |-> "text"]
TokenOutcomes == {Answered(s) : s \in Statuses} \cup {GetRaised, TextRaised(403)}
PlayerOutcomes == {Answered(s) : s \in Statuses} \cup {GetRaised}

\* Entries the host may hold before any wizard of this model has run: none,
\* or one entry stored without a usable api_token (the case lines 38-40
\* guard against with `if self.api_token`).
LegacyEntries ==
    {[api_token |-> t, player_tag |-> <<"#", "L">>, proxy_url |-> "http://p0"] :
        t \in {None, ""}}

NoData == [api_token |-> None, player_tag |-> <<>>, proxy_url |-> None]
NoErrors == {}
NoLocals == [api_token |-> None, player_tag |-> <<>>]

\* The options flow before it is opened.
NoOptionsFlow == [type |-> "none"]

\* ------------------------------------------------------------- state
VARIABLES
    entries,      \* the host's stored entries' data, in creation order
    api_token,    \* self.api_token of each flow
    proxy_url,    \* self.proxy_url of each flow
    pc,           \* where each flow's handler is: "idle", or awaiting a GET
    local,        \* the awaiting handler's locals: api_token, player_tag
    result,       \* the FlowResult each flow's last handler returned
    entry_check,  \* what async_step_user found when the flow started
    trace,        \* the steps each flow has completed, in order
    last,         \* each flow's current (or last) submission: step, GETs, outcome
    get_proxies,  \* the proxy= arguments of the GETs each flow has issued
    options,      \* config_entry.options of the entry the options flow edits
    options_result \* the FlowResult the options flow's last handler returned

vars ==
    <<entries, api_token, proxy_url, pc, local, result, entry_check, trace, last,
      get_proxies, options, options_result>>

\* ------------------------------------------------------------- helpers
\* A mutant of Truthy: only None counts as missing (`is not None`).
Truthy_not_none(v) == v # None

\* Python truthiness of an opaque value: None and "" are falsy.
Truthy(v) == v # None /\ v # ""

\* dict.get(key) for the opaque-valued keys.
Get(d, k) == IF k \in DOMAIN d THEN d[k] ELSE None

\* str.strip(): drop leading and trailing whitespace.
RECURSIVE lstrip(_)
lstrip(s) ==
    IF s # <<>> /\ Head(s) \in Whitespace THEN lstrip(Tail(s)) ELSE s

RECURSIVE rstrip(_)
rstrip(s) ==
    IF s # <<>> /\ s[Len(s)] \in Whitespace
    THEN rstrip(SubSeq(s, 1, Len(s) - 1))
    ELSE s

strip(s) == rstrip(lstrip(s))

\* str.startswith("#")
startswith_hash(s) == s # <<>> /\ Head(s) = "#"

\* A mutant of _normalize_player_tag: the whitespace is left in place.
_normalize_player_tag_no_strip(player_tag) ==
    IF ~startswith_hash(player_tag) THEN <<"#">> \o player_tag ELSE player_tag

\* A mutant of _normalize_player_tag: '#' is prefixed whatever the tag
\* starts with.
_normalize_player_tag_always_prefix(player_tag) == <<"#">> \o strip(player_tag)

\* A mutant of _normalize_player_tag: the prefixing is dropped.
_normalize_player_tag_no_prefix(player_tag) == strip(player_tag)

\* _normalize_player_tag (lines 173-183).
_normalize_player_tag(player_tag) ==
    LET stripped == strip(player_tag)
    IN  IF ~startswith_hash(stripped) THEN <<"#">> \o stripped ELSE stripped

\* A mutant of _is_player_already_configured: only the first entry is compared.
_is_player_already_configured_first_only(player_tag) ==
    entries # <<>> /\ entries[1].player_tag = player_tag

\* _is_player_already_configured (lines 185-191).
_is_player_already_configured(player_tag) ==
    \E i \in 1..Len(entries) : entries[i].player_tag = player_tag

\* A mutant of _validate_api_token: status 403 is taken for a valid token.
_validate_api_token_403_valid(outcome) ==
    IF outcome.raises # "no"
    THEN [valid |-> FALSE, errors |-> {<<"base", "connection_error">>}]
    ELSE IF outcome.status \in {400, 403, 404, 200}
    THEN [valid |-> TRUE, errors |-> NoErrors]
    ELSE [valid |-> FALSE, errors |-> {<<"base", "api_error">>}]

\* A mutant of _validate_api_token: an exception is reported as an API error.
_validate_api_token_raise_api_error(outcome) ==
    IF outcome.raises # "no"
    THEN [valid |-> FALSE, errors |-> {<<"base", "api_error">>}]
    ELSE IF outcome.status = 403
    THEN [valid |-> FALSE, errors |-> {<<"api_token", "invalid_token">>}]
    ELSE IF outcome.status \in {400, 404, 200}
    THEN [valid |-> TRUE, errors |-> NoErrors]
    ELSE [valid |-> FALSE, errors |-> {<<"base", "api_error">>}]

\* _validate_api_token (lines 121-147), from the outcome of its GET on.  The
\* body read of line 135 is inside the try: when it raises, line 147 answers.
_validate_api_token(outcome) ==
    IF outcome.raises # "no"
    THEN [valid |-> FALSE, errors |-> {<<"base", "connection_error">>}]
    ELSE IF outcome.status = 403
    THEN [valid |-> FALSE, errors |-> {<<"api_token", "invalid_token">>}]
    ELSE IF outcome.status \in {400, 404, 200}
    THEN [valid |-> TRUE, errors |-> NoErrors]
    ELSE [valid |-> FALSE, errors |-> {<<"base", "api_error">>}]

\* A mutant of _validate_player_tag: any status but 404 is taken for success.
_validate_player_tag_lenient(outcome) ==
    IF outcome.raises # "no"
    THEN [valid |-> FALSE, errors |-> {<<"base", "connection_error">>}]
    ELSE IF outcome.status = 404
    THEN [valid |-> FALSE, errors |-> {<<"player_tag", "player_not_found">>}]
    ELSE [valid |-> TRUE, errors |-> NoErrors]

\* A mutant of _validate_player_tag: status 404 is reported as an API error.
_validate_player_tag_404_api_error(outcome) ==
    IF outcome.raises # "no"
    THEN [valid |-> FALSE, errors |-> {<<"base", "connection_error">>}]
    ELSE IF outcome.status = 200
    THEN [valid |-> TRUE, errors |-> NoErrors]
    ELSE [valid |-> FALSE, errors |-> {<<"base", "api_error">>}]

\* _validate_player_tag (lines 149-171), from the outcome of its GET on.
_validate_player_tag(outcome) ==
    IF outcome.raises # "no"
    THEN [valid |-> FALSE, errors |-> {<<"base", "connection_error">>}]
    ELSE IF outcome.status = 404
    THEN [valid |-> FALSE, errors |-> {<<"player_tag", "player_not_found">>}]
    ELSE IF outcome.status = 200
    THEN [valid |-> TRUE, errors |-> NoErrors]
    ELSE [valid |-> FALSE, errors |-> {<<"base", "api_error">>}]

\* self.async_show_form(step_id=..., errors=...): the FlowResult returned.
async_show_form(step_id, errors) ==
    [type |-> "form", step_id |-> step_id, errors |-> errors, data |-> NoData]

\* self.async_create_entry(title=..., data=...): the FlowResult returned; the
\* host stores its data as a new entry.
async_create_entry(data) ==
    [type |-> "create_entry", step_id |-> "", errors |-> NoErrors, data |-> data]

NotStarted == [type |-> "none", step_id |-> "", errors |-> NoErrors, data |-> NoData]

\* The record of a submission: the handler it went to, the GETs it has
\* issued so far, and the outcome of its GET once known.
Submission(step, gets, outcome) ==
    [step |-> step, gets |-> gets, outcome |-> outcome]

\* ------------------------------------------------------------- Init
\* __init__ (lines 26-29) for every flow; the host's storage as found.
Init ==
    /\ entries \in {<<>>} \cup {<<e>> : e \in LegacyEntries}
    /\ api_token = [f \in Flows |-> None]
    /\ proxy_url = [f \in Flows |-> None]
    /\ pc = [f \in Flows |-> "idle"]
    /\ local = [f \in Flows |-> NoLocals]
    /\ result = [f \in Flows |-> NotStarted]
    /\ entry_check = [f \in Flows |-> "pending"]
    /\ trace = [f \in Flows |-> <<>>]
    /\ last = [f \in Flows |-> Submission("none", 0, NoOutcome)]
    /\ get_proxies = [f \in Flows |-> {}]
    /\ options = EmptyDict
    /\ options_result = NoOptionsFlow

\* ------------------------------------------------------------- actions
\* A mutant of async_step_user: the player form is shown whatever is stored.
async_step_user_always_player(f) ==
    /\ result[f].type = "none"
    /\ pc[f] = "idle"
    /\ LET found == entries # <<>>
           token == IF found THEN entries[1].api_token ELSE api_token[f]
           proxy == IF found THEN entries[1].proxy_url ELSE proxy_url[f]
       IN  /\ api_token' = [api_token EXCEPT ![f] = token]
           /\ proxy_url' = [proxy_url EXCEPT ![f] = proxy]
           /\ entry_check' = [entry_check EXCEPT ![f] =
                                IF ~found THEN "empty"
                                ELSE IF Truthy(token) THEN "token" ELSE "no_token"]
           /\ result' = [result EXCEPT ![f] = async_show_form("player", NoErrors)]
    /\ trace' = [trace EXCEPT ![f] = Append(@, "entry-check")]
    /\ last' = [last EXCEPT ![f] = Submission("user", 0, NoOutcome)]
    /\ UNCHANGED <<entries, pc, local, get_proxies,
                 options, options_result>>

\* A mutant of async_step_user: the stored token and proxy are not taken over.
async_step_user_no_copy(f) ==
    /\ result[f].type = "none"
    /\ pc[f] = "idle"
    /\ LET found == entries # <<>>
           token == IF found THEN entries[1].api_token ELSE api_token[f]
       IN  /\ UNCHANGED <<api_token, proxy_url>>
           /\ entry_check' = [entry_check EXCEPT ![f] =
                                IF ~found THEN "empty"
                                ELSE IF Truthy(token) THEN "token" ELSE "no_token"]
           /\ result' = [result EXCEPT ![f] =
                            IF found /\ Truthy(token)
                            THEN async_show_form("player", NoErrors)
                            ELSE async_show_form("proxy", NoErrors)]
    /\ trace' = [trace EXCEPT ![f] = Append(@, "entry-check")]
    /\ last' = [last EXCEPT ![f] = Submission("user", 0, NoOutcome)]
    /\ UNCHANGED <<entries, pc, local, get_proxies,
                 options, options_result>>

\* async_step_user (lines 31-44): the entry check that starts a flow.  With a
\* stored entry the first entry's token and proxy are taken over, and a
\* truthy token leads straight to async_step_player(); anything else leads
\* to async_step_proxy(), which, called without input, shows its form.
async_step_user(f) ==
    /\ result[f].type = "none"
    /\ pc[f] = "idle"
    /\ LET found == entries # <<>>
           token == IF found THEN entries[1].api_token ELSE api_token[f]
           proxy == IF found THEN entries[1].proxy_url ELSE proxy_url[f]
       IN  /\ api_token' = [api_token EXCEPT ![f] = token]
           /\ proxy_url' = [proxy_url EXCEPT ![f] = proxy]
           /\ entry_check' = [entry_check EXCEPT ![f] =
                                IF ~found THEN "empty"
                                ELSE IF Truthy(token) THEN "token" ELSE "no_token"]
           /\ result' = [result EXCEPT ![f] =
                            IF found /\ Truthy(token)
                            THEN async_show_form("player", NoErrors)
                            ELSE async_show_form("proxy", NoErrors)]
    /\ trace' = [trace EXCEPT ![f] = Append(@, "entry-check")]
    /\ last' = [last EXCEPT ![f] = Submission("user", 0, NoOutcome)]
    /\ UNCHANGED <<entries, pc, local, get_proxies,
                 options, options_result>>

\* async_step_proxy (lines 46-58) with a submitted form: the proxy is taken
\* as given and async_step_token(), called without input, shows its form.
async_step_proxy(f, user_input) ==
    /\ result[f].type = "form"
    /\ result[f].step_id = "proxy"
    /\ pc[f] = "idle"
    /\ proxy_url' = [proxy_url EXCEPT ![f] = Get(user_input, "proxy_url")]
    /\ result' = [result EXCEPT ![f] = async_show_form("token", NoErrors)]
    /\ trace' = [trace EXCEPT ![f] = Append(@, "proxy-input")]
    /\ last' = [last EXCEPT ![f] = Submission("proxy", 0, NoOutcome)]
    /\ UNCHANGED <<entries, api_token, pc, local, entry_check, get_proxies,
                 options, options_result>>

\* A mutant of async_step_token: the validation GET is sent without the
\* flow's proxy.
async_step_token_no_proxy(f, user_input) ==
    /\ result[f].type = "form"
    /\ result[f].step_id = "token"
    /\ pc[f] = "idle"
    /\ LET token == Get(user_input, "api_token")
       IN  IF ~Truthy(token)
           THEN /\ result' = [result EXCEPT ![f] =
                                async_show_form("token", {<<"base", "missing_data">>})]
                /\ last' = [last EXCEPT ![f] = Submission("token", 0, NoOutcome)]
                /\ UNCHANGED <<pc, local, get_proxies>>
           ELSE /\ pc' = [pc EXCEPT ![f] = "token_get"]
                /\ local' = [local EXCEPT ![f] = [NoLocals EXCEPT !.api_token = token]]
                /\ last' = [last EXCEPT ![f] = Submission("token", 1, NoOutcome)]
                /\ get_proxies' = [get_proxies EXCEPT ![f] = @ \cup {None}]
                /\ UNCHANGED result
    /\ UNCHANGED <<entries, api_token, proxy_url, entry_check, trace,
                 options, options_result>>

\* async_step_token (lines 60-71) with a submitted form, up to the await of
\* the validation GET: an empty token is answered at once, any other token
\* is sent with the flow's proxy.
async_step_token(f, user_input) ==
    /\ result[f].type = "form"
    /\ result[f].step_id = "token"
    /\ pc[f] = "idle"
    /\ LET token == Get(user_input, "api_token")
       IN  IF ~Truthy(token)
           THEN /\ result' = [result EXCEPT ![f] =
                                async_show_form("token", {<<"base", "missing_data">>})]
                /\ last' = [last EXCEPT ![f] = Submission("token", 0, NoOutcome)]
                /\ UNCHANGED <<pc, local, get_proxies>>
           ELSE /\ pc' = [pc EXCEPT ![f] = "token_get"]
                /\ local' = [local EXCEPT ![f] = [NoLocals EXCEPT !.api_token = token]]
                /\ last' = [last EXCEPT ![f] = Submission("token", 1, NoOutcome)]
                /\ get_proxies' = [get_proxies EXCEPT ![f] = @ \cup {proxy_url[f]}]
                /\ UNCHANGED result
    /\ UNCHANGED <<entries, api_token, proxy_url, entry_check, trace,
                 options, options_result>>

\* A mutant of async_step_token_resumed: a GET that did not answer 200 is
\* issued again.
async_step_token_resumed_retry(f, outcome) ==
    /\ pc[f] = "token_get"
    /\ LET validation_result == _validate_api_token(outcome)
       IN  IF outcome.raises = "no" /\ outcome.status = 200
           THEN /\ api_token' = [api_token EXCEPT ![f] = local[f].api_token]
                /\ result' = [result EXCEPT ![f] = async_show_form("player", NoErrors)]
                /\ trace' = [trace EXCEPT ![f] = Append(@, "token-validated")]
                /\ pc' = [pc EXCEPT ![f] = "idle"]
                /\ local' = [local EXCEPT ![f] = NoLocals]
                /\ last' = [last EXCEPT ![f].outcome = outcome]
           ELSE /\ last[f].gets < 3
                /\ last' = [last EXCEPT ![f].gets = @ + 1]
                /\ UNCHANGED <<api_token, result, trace, pc, local>>
    /\ UNCHANGED <<entries, proxy_url, entry_check, get_proxies,
                 options, options_result>>

\* A mutant of async_step_token_resumed: the submitted token is stored
\* before the validation result is looked at.
async_step_token_resumed_store_first(f, outcome) ==
    /\ pc[f] = "token_get"
    /\ LET validation_result == _validate_api_token(outcome)
       IN  /\ api_token' = [api_token EXCEPT ![f] = local[f].api_token]
           /\ IF validation_result.valid
              THEN /\ result' = [result EXCEPT ![f] = async_show_form("player", NoErrors)]
                   /\ trace' = [trace EXCEPT ![f] = Append(@, "token-validated")]
              ELSE /\ result' = [result EXCEPT ![f] =
                                    async_show_form("token", validation_result.errors)]
                   /\ UNCHANGED trace
    /\ pc' = [pc EXCEPT ![f] = "idle"]
    /\ local' = [local EXCEPT ![f] = NoLocals]
    /\ last' = [last EXCEPT ![f].outcome = outcome]
    /\ UNCHANGED <<entries, proxy_url, entry_check, get_proxies,
                 options, options_result>>

\* async_step_token (lines 71-82) from the outcome of the validation GET on:
\* a valid token is stored and async_step_player(), called without input,
\* shows its form; otherwise the token form is shown with the errors.
async_step_token_resumed(f, outcome) ==
    /\ pc[f] = "token_get"
    /\ LET validation_result == _validate_api_token(outcome)
       IN  IF validation_result.valid
           THEN /\ api_token' = [api_token EXCEPT ![f] = local[f].api_token]
                /\ result' = [result EXCEPT ![f] = async_show_form("player", NoErrors)]
                /\ trace' = [trace EXCEPT ![f] = Append(@, "token-validated")]
           ELSE /\ result' = [result EXCEPT ![f] =
                                async_show_form("token", validation_result.errors)]
                /\ UNCHANGED <<api_token, trace>>
    /\ pc' = [pc EXCEPT ![f] = "idle"]
    /\ local' = [local EXCEPT ![f] = NoLocals]
    /\ last' = [last EXCEPT ![f].outcome = outcome]
    /\ UNCHANGED <<entries, proxy_url, entry_check, get_proxies,
                 options, options_result>>

\* async_step_player (lines 84-102) with a submitted form, up to the await
\* of the lookup GET: a missing tag is answered at once; the tag is
\* normalized and compared with the stored entries; a new tag is looked up
\* with the flow's proxy.
async_step_player(f, user_input) ==
    /\ result[f].type = "form"
    /\ result[f].step_id = "player"
    /\ pc[f] = "idle"
    /\ IF "player_tag" \notin DOMAIN user_input \/ user_input.player_tag = <<>>
       THEN /\ result' = [result EXCEPT ![f] =
                            async_show_form("player", {<<"base", "missing_data">>})]
            /\ last' = [last EXCEPT ![f] = Submission("player", 0, NoOutcome)]
            /\ UNCHANGED <<pc, local, get_proxies>>
       ELSE LET player_tag == _normalize_player_tag(user_input.player_tag)
            IN  IF _is_player_already_configured(player_tag)
                THEN /\ result' = [result EXCEPT ![f] =
                                    async_show_form("player",
                                        {<<"player_tag", "already_configured">>})]
                     /\ last' = [last EXCEPT ![f] = Submission("player", 0, NoOutcome)]
                     /\ UNCHANGED <<pc, local, get_proxies>>
                ELSE /\ pc' = [pc EXCEPT ![f] = "player_get"]
                     /\ local' = [local EXCEPT ![f] =
                                    [NoLocals EXCEPT !.player_tag = player_tag]]
                     /\ last' = [last EXCEPT ![f] = Submission("player", 1, NoOutcome)]
                     /\ get_proxies' = [get_proxies EXCEPT ![f] = @ \cup {proxy_url[f]}]
                     /\ UNCHANGED result
    /\ UNCHANGED <<entries, api_token, proxy_url, entry_check, trace,
                 options, options_result>>

\* async_step_player (lines 102-119) from the outcome of the lookup GET on:
\* a valid tag creates the entry from the flow's token and proxy and the
\* normalized tag, and the host stores it; otherwise the player form is
\* shown with the errors.
async_step_player_resumed(f, outcome) ==
    /\ pc[f] = "player_get"
    /\ LET validation_result == _validate_player_tag(outcome)
           data == [api_token |-> api_token[f],
                    player_tag |-> local[f].player_tag,
                    proxy_url |-> proxy_url[f]]
       IN  IF validation_result.valid
           THEN /\ result' = [result EXCEPT ![f] = async_create_entry(data)]
                /\ entries' = Append(entries, data)
                /\ trace' = [trace EXCEPT ![f] = @ \o <<"player-validated", "persist">>]
           ELSE /\ result' = [result EXCEPT ![f] =
                                async_show_form("player", validation_result.errors)]
                /\ UNCHANGED <<entries, trace>>
    /\ pc' = [pc EXCEPT ![f] = "idle"]
    /\ local' = [local EXCEPT ![f] = NoLocals]
    /\ last' = [last EXCEPT ![f].outcome = outcome]
    /\ UNCHANGED <<api_token, proxy_url, entry_check, get_proxies,
                 options, options_result>>

\* ------------------------------------------------------------- behaviours
\* The host starts flows and delivers form submissions; the network
\* delivers the outcome of each GET in flight.
Next ==
    \E f \in Flows :
        \/ async_step_user(f)
        \/ \E user_input \in ProxyInputs : async_step_proxy(f, user_input)
        \/ \E user_input \in TokenInputs : async_step_token(f, user_input)
        \/ \E outcome \in TokenOutcomes : async_step_token_resumed(f, outcome)
        \/ \E user_input \in PlayerInputs : async_step_player(f, user_input)
        \/ \E outcome \in PlayerOutcomes : async_step_player_resumed(f, outcome)

Spec == Init /\ [][Next]_vars

\* ------------------------------------------------------- options flow
\* The interval the options form offers when none is stored.
DefaultInterval == 300

\* dict.get(key, default).
GetOr(d, k, default) == IF k \in DOMAIN d THEN d[k] ELSE default

\* What the options form can be submitted with: an int and a str.
OptionInputs ==
    {[interval |-> i, proxy_url |-> u] :
        i \in {30, 60, DefaultInterval, 600}, u \in {"", "http://p1", "http://p2"}}

\* The data of the entry whose options are edited: created by the wizard
\* with a proxy, with an empty one or with the proxy left out (None), or
\* stored without a proxy_url key at all.
OptionsEntryData ==
    {[api_token |-> "tokA", player_tag |-> <<"#", "T">>, proxy_url |-> p] :
        p \in {None, "", "http://p0", "http://p1"}}
    \cup {[api_token |-> "tokA", player_tag |-> <<"#", "T">>]}

\* self.config_entry of the options flow handler.
config_entry == [data |-> entries[1], options |-> options]

\* The schema defaults of lines 208-209.
OptionsDefaults ==
    [interval |-> GetOr(config_entry.options, "interval", DefaultInterval),
     proxy_url |-> GetOr(config_entry.options, "proxy_url",
                         GetOr(config_entry.data, "proxy_url", ""))]

\* ClashRoyaleOptionsFlowHandler.async_step_init with user_input None (lines
\* 207-212): the options flow is opened and shows its form.
async_step_init_form ==
    /\ entries # <<>>
    /\ options_result.type \in {"none", "create_entry"}
    /\ options_result' = [type |-> "form", step_id |-> "init",
                          defaults |-> OptionsDefaults]
    /\ UNCHANGED <<entries, api_token, proxy_url, pc, local, result, entry_check,
                   trace, last, get_proxies, options>>

\* ClashRoyaleOptionsFlowHandler.async_step_init with a submitted form (lines
\* 204-205): the flow ends with async_create_entry(title="", data=user_input),
\* which the host stores as the entry's options.
async_step_init(user_input) ==
    /\ options_result.type = "form"
    /\ options_result' = [type |-> "create_entry", title |-> "", data |-> user_input]
    /\ options' = user_input
    /\ UNCHANGED <<entries, api_token, proxy_url, pc, local, result, entry_check,
                   trace, last, get_proxies>>

InitOptions ==
    /\ entries \in {<<e>> : e \in OptionsEntryData}
    /\ api_token = [f \in Flows |-> None]
    /\ proxy_url = [f \in Flows |-> None]
    /\ pc = [f \in Flows |-> "idle"]
    /\ local = [f \in Flows |-> NoLocals]
    /\ result = [f \in Flows |-> NotStarted]
    /\ entry_check = [f \in Flows |-> "pending"]
    /\ trace = [f \in Flows |-> <<>>]
    /\ last = [f \in Flows |-> Submission("none", 0, NoOutcome)]
    /\ get_proxies = [f \in Flows |-> {}]
    /\ options = EmptyDict
    /\ options_result = NoOptionsFlow

NextOptions ==
    \/ async_step_init_form
    \/ \E user_input \in OptionInputs : async_step_init(user_input)

SpecOptions == InitOptions /\ [][NextOptions]_vars

\* ------------------------------------------------------------- claims
\* What a form shown by a flow at rest says.
Shows(f, step_id, errors) ==
    pc[f] = "idle" /\ result[f] = async_show_form(step_id, errors)

\* The flow's last submission went to `step`, issued a GET, and the GET was
\* answered with `status` (whatever happened to the response afterwards).
AnsweredWith(f, step, status) ==
    /\ pc[f] = "idle"
    /\ last[f].step = step
    /\ last[f].gets >= 1
    /\ last[f].outcome.raises \in {"no", "text"}
    /\ last[f].outcome.status = status

\* The entries stored by the wizard (the others were there before it ran).
CreatedEntries == {i \in 1..Len(entries) : entries[i] \notin LegacyEntries}
Finished == {f \in Flows : result[f].type = "create_entry"}

\* Every entry the wizard stored is the result of one finished flow, and the
\* other way round.
OneEntryPerFinishedFlow ==
    /\ Cardinality(CreatedEntries) = Cardinality(Finished)
    /\ \A f \in Finished : \E i \in CreatedEntries : entries[i] = result[f].data

IsPrefix(s, t) == Len(s) <= Len(t) /\ s = SubSeq(t, 1, Len(s))

FreshOrder ==
    <<"entry-check", "proxy-input", "token-validated", "player-validated", "persist">>
SkipOrder == <<"entry-check", "player-validated", "persist">>

\* The non-empty tag strings a user may type, by the tag they normalize to.
TypedTags == Strings \ {<<>>}
NormalizedTags == {_normalize_player_tag(s) : s \in TypedTags}
TypedTagsFor ==
    [t \in NormalizedTags |-> {s \in TypedTags : _normalize_player_tag(s) = t}]

\* C1: every non-empty tag string is normalized to a tag that starts with
\* '#', so the tag a player submission looks up, and the player_tag of every
\* entry the player step creates, starts with '#'.
C1_TagStartsWithHash ==
    /\ \A t \in NormalizedTags : startswith_hash(t)
    /\ \A f \in Flows :
        /\ pc[f] = "player_get" => startswith_hash(local[f].player_tag)
        /\ result[f].type = "create_entry" =>
              startswith_hash(result[f].data.player_tag)
    /\ \A i \in CreatedEntries : startswith_hash(entries[i].player_tag)

\* C1 witness: an entry was created for a tag of more than the hash sign.
C1_Witness ==
    \E f \in Flows :
        /\ result[f].type = "create_entry"
        /\ result[f].data.player_tag = <<"#", "T">>
        /\ \E i \in CreatedEntries : entries[i].player_tag = <<"#", "T">>

\* C2 (as claimed): whenever the token-validation GET is answered with 403,
\* the token form is shown again with {api_token: invalid_token}, the flow
\* has not advanced and the submitted token is not the flow's api_token.
C2_Status403MarksTokenInvalid ==
    \A f \in Flows :
        AnsweredWith(f, "token", 403) =>
            /\ Shows(f, "token", {<<"api_token", "invalid_token">>})
            /\ ~Truthy(api_token[f])
            /\ "token-validated" \notin {trace[f][i] : i \in 1..Len(trace[f])}

\* C3: whenever the player-lookup GET is answered with 404, the player form
\* is shown again with {player_tag: player_not_found} and no entry is
\* created.
C3_Status404MarksPlayerNotFound ==
    /\ \A f \in Flows :
        AnsweredWith(f, "player", 404) =>
            Shows(f, "player", {<<"player_tag", "player_not_found">>})
    /\ OneEntryPerFinishedFlow

\* C3 witness: a player lookup was answered with 404.
C3_Witness ==
    \E f \in Flows :
        /\ AnsweredWith(f, "player", 404)
        /\ result[f].errors = {<<"player_tag", "player_not_found">>}

\* C4: a player submission whose normalized tag is the player_tag of a
\* stored entry is answered with {player_tag: already_configured} before
\* any network call: no GET is issued or left in flight, and no entry is
\* created.
C4_AlreadyConfiguredBeforeNetwork ==
    [][\A f \in Flows : \A i \in 1..Len(entries) :
          ( /\ result[f].type = "form" /\ result[f].step_id = "player"
            /\ pc[f] = "idle"
            /\ entries[i].player_tag \in NormalizedTags ) =>
          \A s \in TypedTagsFor[entries[i].player_tag] :
              async_step_player(f, [player_tag |-> s])
              => /\ result'[f] =
                        async_show_form("player",
                            {<<"player_tag", "already_configured">>})
                 /\ pc'[f] = "idle"
                 /\ last'[f].gets = 0
                 /\ get_proxies' = get_proxies
                 /\ entries' = entries]_vars

\* C4 witness: a flow was told that its tag is already configured, the tag
\* being one that another flow stored.
C4_Witness ==
    \E f \in Flows :
        /\ Shows(f, "player", {<<"player_tag", "already_configured">>})
        /\ last[f].step = "player"
        /\ last[f].gets = 0
        /\ Finished # {}

Steps(f) == {trace[f][i] : i \in 1..Len(trace[f])}

\* C5: in a flow started when no entry exists, the steps occur in the order
\* entry-check, proxy input, token validation, player validation, persist:
\* the token form is shown only after the proxy form was submitted, the
\* player form only after a token validated, and an entry is created only
\* after all of them.
C5_FreshFlowStepOrder ==
    \A f \in Flows :
        entry_check[f] = "empty" =>
            /\ IsPrefix(trace[f], FreshOrder)
            /\ result[f].type = "form" /\ result[f].step_id = "proxy" =>
                  trace[f] = SubSeq(FreshOrder, 1, 1)
            /\ result[f].type = "form" /\ result[f].step_id = "token" =>
                  trace[f] = SubSeq(FreshOrder, 1, 2)
            /\ pc[f] = "token_get" => trace[f] = SubSeq(FreshOrder, 1, 2)
            /\ result[f].type = "form" /\ result[f].step_id = "player" =>
                  /\ trace[f] = SubSeq(FreshOrder, 1, 3)
                  /\ Truthy(api_token[f])
            /\ pc[f] = "player_get" => trace[f] = SubSeq(FreshOrder, 1, 3)
            /\ result[f].type = "create_entry" =>
                  /\ trace[f] = FreshOrder
                  /\ \E i \in CreatedEntries : entries[i] = result[f].data

\* C5 witness: a flow started with no entry stored has created its entry.
C5_Witness ==
    \E f \in Flows :
        /\ entry_check[f] = "empty"
        /\ result[f].type = "create_entry"
        /\ trace[f] = FreshOrder

\* C6: a submission issues at most one GET, whatever the outcome of the GET:
\* none in the entry check and the proxy step, at most one in the token
\* step and in the player step, and a GET is in flight only as the one GET
\* of its submission.
C6_OneGetPerSubmission ==
    \A f \in Flows :
        /\ last[f].gets <= 1
        /\ last[f].step \in {"none", "user", "proxy"} => last[f].gets = 0
        /\ pc[f] # "idle" => last[f].gets = 1 /\ last[f].outcome = NoOutcome
        /\ pc[f] = "idle" /\ last[f].gets = 1 => last[f].outcome # NoOutcome
        /\ pc[f] = "idle" /\ last[f].gets = 0 => last[f].outcome = NoOutcome

\* C6 witness: a token submission whose GET raised, and a player submission
\* whose GET answered 500, are over after their one GET.
C6_Witness ==
    \E f, g \in Flows :
        /\ pc[f] = "idle" /\ last[f].step = "token"
        /\ last[f].gets = 1 /\ last[f].outcome = GetRaised
        /\ pc[g] = "idle" /\ last[g].step = "player"
        /\ last[g].gets = 1 /\ last[g].outcome = Answered(500)

\* C7 (as claimed): no two stored entries have the same player_tag.
C7_NoDuplicatePlayerTag ==
    \A i, j \in 1..Len(entries) :
        i # j => entries[i].player_tag # entries[j].player_tag

\* The entry check of flow f happens in this step.
Starts(f) == result[f].type = "none" /\ result'[f].type # "none"

\* C8, the entry check: with a first entry that holds a non-empty api_token
\* the flow shows the player form at once, without a GET; with a first entry
\* that holds none it shows the proxy form, as with no entry at all.
C8_EntryCheck ==
    \A f \in Flows :
        Starts(f) =>
            /\ pc'[f] = "idle" /\ last'[f].gets = 0 /\ get_proxies'[f] = {}
            /\ IF entries # <<>> /\ Truthy(entries[1].api_token)
               THEN /\ result'[f] = async_show_form("player", NoErrors)
                    /\ entry_check'[f] = "token"
               ELSE /\ result'[f] = async_show_form("proxy", NoErrors)
                    /\ entry_check'[f] = IF entries = <<>> THEN "empty" ELSE "no_token"

\* C8, after the entry check: a flow that went straight to the player form
\* never shows the proxy or token form nor validates a token, and the entry
\* it creates carries the first entry's api_token and proxy_url.
C8_Carried ==
    \A f \in Flows :
        /\ entry_check[f] = "token" =>
            /\ IsPrefix(trace[f], SkipOrder)
            /\ result[f].type = "form" => result[f].step_id = "player"
            /\ last[f].step \in {"user", "player"}
            /\ pc[f] # "token_get"
            /\ api_token[f] = entries[1].api_token
            /\ proxy_url[f] = entries[1].proxy_url
            /\ result[f].type = "create_entry" =>
                  /\ result[f].data.api_token = entries[1].api_token
                  /\ result[f].data.proxy_url = entries[1].proxy_url
                  /\ Truthy(result[f].data.api_token)
        /\ entry_check[f] = "no_token" =>
            /\ IsPrefix(trace[f], FreshOrder)
            /\ Len(trace[f]) = 1 => result[f] = async_show_form("proxy", NoErrors)

\* C8: the two parts together.
C8_ExistingEntrySkipsSetup == [][C8_EntryCheck]_vars /\ []C8_Carried

\* C8 witness: a flow started over an entry with a token went straight to
\* the player form and created an entry with that entry's token and its
\* proxy, a proxy that was submitted to the first flow.
C8_Witness ==
    \E f \in Flows :
        /\ entry_check[f] = "token"
        /\ result[f].type = "create_entry"
        /\ trace[f] = SkipOrder
        /\ get_proxies[f] = {"http://p1"}
        /\ result[f].data.proxy_url = "http://p1"
        /\ result[f].data.api_token = entries[1].api_token

\* The other case of C8 is reachable too: a flow started over an entry
\* without a token has gone through the proxy and token forms.
C8_NoTokenCase ==
    \E f \in Flows :
        /\ entry_check[f] = "no_token"
        /\ result[f].type = "create_entry"
        /\ trace[f] = FreshOrder

\* C9 (as claimed): token validation accepts the token exactly when the GET
\* answers 200, 400 or 404, storing the token and showing the player form;
\* 403 gives {api_token: invalid_token} and every other status
\* {base: api_error}, on the token form.
C9_TokenStatusTable ==
    \A f \in Flows : \A s \in Statuses :
        AnsweredWith(f, "token", s) =>
            IF s \in {200, 400, 404}
            THEN Shows(f, "player", NoErrors) /\ Truthy(api_token[f])
            ELSE IF s = 403
            THEN Shows(f, "token", {<<"api_token", "invalid_token">>})
            ELSE Shows(f, "token", {<<"base", "api_error">>})

\* C10: the player step creates an entry only when the lookup GET answers
\* 200; 404 gives {player_tag: player_not_found} and every other status,
\* 403 too, {base: api_error}, on the player form, with no entry created.
C10_PlayerStatusTable ==
    /\ \A f \in Flows : \A s \in Statuses :
        AnsweredWith(f, "player", s) =>
            IF s = 200
            THEN result[f].type = "create_entry"
            ELSE IF s = 404
            THEN Shows(f, "player", {<<"player_tag", "player_not_found">>})
            ELSE Shows(f, "player", {<<"base", "api_error">>})
    /\ \A f \in Finished : last[f] = Submission("player", 1, Answered(200))
    /\ OneEntryPerFinishedFlow

\* C10 witness: one lookup answered 200 and created the entry, another
\* answered 403 and was reported as an API error.
C10_Witness ==
    \E f, g \in Flows :
        /\ AnsweredWith(f, "player", 200) /\ result[f].type = "create_entry"
        /\ AnsweredWith(g, "player", 403)
        /\ Shows(g, "player", {<<"base", "api_error">>})

\* The flow's last submission went to `step` and its GET raised.
RaisedIn(f, step) ==
    /\ pc[f] = "idle"
    /\ last[f].step = step
    /\ last[f].gets >= 1
    /\ last[f].outcome = GetRaised

\* C11: when the GET of either validation raises, the step returns its own
\* form with {base: connection_error}: the token step stores no token and
\* does not reach the player form, the player step creates no entry.
C11_GetExceptionIsConnectionError ==
    /\ \A f \in Flows :
        /\ RaisedIn(f, "token") =>
              /\ Shows(f, "token", {<<"base", "connection_error">>})
              /\ ~Truthy(api_token[f])
              /\ "token-validated" \notin Steps(f)
        /\ RaisedIn(f, "player") =>
              /\ Shows(f, "player", {<<"base", "connection_error">>})
              /\ "persist" \notin Steps(f)
    /\ OneEntryPerFinishedFlow

\* C11 witness: the GET of a token submission and the GET of a player
\* submission have raised.
C11_Witness ==
    \E f, g \in Flows :
        /\ RaisedIn(f, "token")
        /\ result[f].errors = {<<"base", "connection_error">>}
        /\ RaisedIn(g, "player")
        /\ result[g].errors = {<<"base", "connection_error">>}

\* Submissions without a value: the key left out, or the empty string.
MissingTokenInputs == {EmptyDict, [api_token |-> ""]}
MissingPlayerInputs == {EmptyDict, [player_tag |-> <<>>]}

\* What a submission without a value must leave behind in flow f.
AnsweredMissing(f, step_id) ==
    /\ result'[f] = async_show_form(step_id, {<<"base", "missing_data">>})
    /\ pc'[f] = "idle"
    /\ local'[f] = NoLocals
    /\ last'[f].gets = 0
    /\ UNCHANGED <<entries, api_token, proxy_url, get_proxies, trace>>

\* C12: a token submission without api_token, and a player submission
\* without player_tag, is answered with the same form and
\* {base: missing_data}: no GET is issued, nothing is normalized or compared
\* with the stored entries (an empty tag is not taken for '#'), and the flow
\* does not advance.
C12_MissingDataAnsweredAtOnce ==
    [][\A f \in Flows :
          /\ \A user_input \in MissingTokenInputs :
                async_step_token(f, user_input) => AnsweredMissing(f, "token")
          /\ \A user_input \in MissingPlayerInputs :
                async_step_player(f, user_input) => AnsweredMissing(f, "player")]_vars

\* C12 witness: one flow was told on the token form, another on the player
\* form, that data is missing.
C12_Witness ==
    \E f, g \in Flows :
        /\ Shows(f, "token", {<<"base", "missing_data">>})
        /\ last[f] = Submission("token", 0, NoOutcome)
        /\ Shows(g, "player", {<<"base", "missing_data">>})
        /\ last[g] = Submission("player", 0, NoOutcome)

\* An empty tag is answered as missing although the tag '#', which an empty
\* tag would normalize to, is stored.
C12_EmptyTagNotNormalized ==
    \E f \in Flows :
        /\ Shows(f, "player", {<<"base", "missing_data">>})
        /\ \E i \in 1..Len(entries) : entries[i].player_tag = <<"#">>

\* In this step flow f's token or player handler returns a form with errors.
EndsInError(f) ==
    /\ last'[f] # last[f]
    /\ pc'[f] = "idle"
    /\ result'[f].type = "form"
    /\ result'[f].errors # NoErrors

\* After an error the form shown is the one submitted, and a submission can
\* still go through: the token form takes a token and an accepting answer
\* leads to the player form; the player form takes a tag that is not stored
\* and an answer of 200 creates the entry.
CanStillSucceed(f) ==
    /\ Shows(f, "token", result[f].errors) =>
          ENABLED (async_step_token(f, [api_token |-> "tokA"]) /\ pc'[f] = "token_get")
    /\ pc[f] = "token_get" =>
          ENABLED ( /\ async_step_token_resumed(f, Answered(200))
                    /\ result'[f] = async_show_form("player", NoErrors)
                    /\ api_token'[f] = local[f].api_token )
    /\ Shows(f, "player", result[f].errors) =>
          \E s \in TypedTags :
              ENABLED (async_step_player(f, [player_tag |-> s]) /\ pc'[f] = "player_get")
    /\ pc[f] = "player_get" =>
          ENABLED ( /\ async_step_player_resumed(f, Answered(200))
                    /\ result'[f].type = "create_entry" )

\* C13, the frame: a step in which a token or player submission ends in an
\* error changes neither the flow's api_token, nor its proxy_url, nor the
\* stored entries, and shows the form that was submitted.
C13_ErrorFrame ==
    \A f \in Flows :
        EndsInError(f) =>
            /\ api_token'[f] = api_token[f]
            /\ proxy_url'[f] = proxy_url[f]
            /\ entries' = entries
            /\ result'[f].step_id = result[f].step_id
            /\ result'[f].step_id = last'[f].step

\* C13: errors leave api_token, proxy_url and the entries alone, and from
\* every form, with or without errors, a valid submission still succeeds.
C13_ErrorsLeaveFlowUnchanged ==
    [][C13_ErrorFrame]_vars /\ [](\A f \in Flows : CanStillSucceed(f))

\* C13 witness: a token form and a player form are shown with errors that
\* came from the remote service.
C13_Witness ==
    \E f, g \in Flows :
        /\ Shows(f, "token", {<<"base", "api_error">>})
        /\ ~Truthy(api_token[f])
        /\ Shows(g, "player", {<<"player_tag", "player_not_found">>})
        /\ Truthy(api_token[g])

AcceptingAnswers == {Answered(200), Answered(400), Answered(404)}

\* C15, how a flow comes by its token: self.api_token changes only in the
\* entry check, to the first entry's api_token, or when a token validation
\* is answered 200, 400 or 404, to the non-empty token that was submitted.
C15_TokenOrigin ==
    \A f \in Flows :
        api_token'[f] # api_token[f] =>
            \/ /\ Starts(f)
               /\ entries # <<>>
               /\ api_token'[f] = entries[1].api_token
            \/ /\ pc[f] = "token_get"
               /\ last'[f].outcome \in AcceptingAnswers
               /\ api_token'[f] = local[f].api_token
               /\ Truthy(api_token'[f])

\* C15, what is stored: a flow is at the player step only with a non-empty
\* token, which it validated or took over from the first entry, and the
\* entry it creates holds that token.
C15_TokenStored ==
    /\ \A f \in Flows :
        /\ (pc[f] = "player_get" \/ (result[f].type = "form" /\ result[f].step_id = "player")) =>
              /\ Truthy(api_token[f])
              /\ \/ "token-validated" \in Steps(f)
                 \/ entry_check[f] = "token" /\ api_token[f] = entries[1].api_token
        /\ f \in Finished =>
              /\ result[f].data.api_token = api_token[f]
              /\ Truthy(result[f].data.api_token)
              /\ \/ "token-validated" \in Steps(f)
                 \/ entry_check[f] = "token" /\ api_token[f] = entries[1].api_token
    /\ \A i \in CreatedEntries : Truthy(entries[i].api_token)

\* C15: the two parts together.
C15_EntryHoldsValidatedToken == [][C15_TokenOrigin]_vars /\ []C15_TokenStored

\* C15 witness: one entry holds a token its flow validated, another a token
\* its flow took over from the first entry.
C15_Witness ==
    \E f, g \in Finished :
        /\ entry_check[f] = "empty" /\ "token-validated" \in Steps(f)
        /\ result[f].data.api_token = "tokA"
        /\ entry_check[g] = "token" /\ "token-validated" \notin Steps(g)
        /\ result[g].data.api_token = entries[1].api_token

\* C16, the proxy step: it takes any input without an error or a GET, keeps
\* the submitted proxy_url (None when left out) and shows the token form;
\* self.proxy_url changes in no other step but the entry check.
C16_ProxyStep ==
    \A f \in Flows :
        /\ \A user_input \in ProxyInputs :
              async_step_proxy(f, user_input) =>
                  /\ result'[f] = async_show_form("token", NoErrors)
                  /\ proxy_url'[f] = IF user_input = EmptyDict
                                     THEN None ELSE user_input.proxy_url
                  /\ pc'[f] = "idle" /\ last'[f].gets = 0
                  /\ get_proxies' = get_proxies
        /\ proxy_url'[f] # proxy_url[f] =>
              \/ Starts(f)
              \/ result[f].step_id = "proxy" /\ result'[f].step_id = "token"

\* C16, the GETs: every GET a flow has issued was given the flow's
\* proxy_url, which is the first entry's when the proxy step was skipped,
\* and the entry the flow creates stores that same value; the proxy form
\* takes every input.
C16_ProxyUsed ==
    \A f \in Flows :
        /\ get_proxies[f] \subseteq {proxy_url[f]}
        /\ last[f].step \in {"token", "player"} /\ last[f].gets >= 1 =>
              get_proxies[f] = {proxy_url[f]}
        /\ entry_check[f] = "token" => proxy_url[f] = entries[1].proxy_url
        /\ f \in Finished =>
              /\ result[f].data.proxy_url = proxy_url[f]
              /\ get_proxies[f] = {result[f].data.proxy_url}
        /\ Shows(f, "proxy", result[f].errors) =>
              /\ result[f].errors = NoErrors
              /\ \A user_input \in ProxyInputs : ENABLED async_step_proxy(f, user_input)

\* C16: the two parts together.
C16_EntryProxyIsGetProxy == [][C16_ProxyStep]_vars /\ []C16_ProxyUsed

\* C16 witness: a flow that submitted a proxy, and a flow that left it out,
\* have each created an entry after a token GET and a player GET.
C16_Witness ==
    \E f, g \in Finished :
        /\ "proxy-input" \in Steps(f) /\ "proxy-input" \in Steps(g)
        /\ result[f].data.proxy_url = "http://p1"
        /\ get_proxies[f] = {"http://p1"}
        /\ result[g].data.proxy_url = None
        /\ get_proxies[g] = {None}

\* ------------------------------------------- the player step on its own
\* What may surround a tag body in a submitted player_tag: nothing or one
\* whitespace character on either side, and no or one leading '#'.
Pads == {<<>>} \cup {<<w>> : w \in Whitespace}
Hashes == {<<>>, <<"#">>}
PaddedTags == {l \o h \o s \o r : l \in Pads, h \in Hashes, s \in Strings, r \in Pads}
PaddedPlayerInputs == {[player_tag |-> x] : x \in PaddedTags}

\* The host holds one entry an earlier wizard created: a validated token, a
\* normalized player tag and no or one proxy.
WizardEntries ==
    {[api_token |-> "tokA", player_tag |-> t, proxy_url |-> p] :
        t \in NormalizedTags, p \in {None, "http://p1"}}

InitTags ==
    /\ entries \in {<<e>> : e \in WizardEntries}
    /\ api_token = [f \in Flows |-> None]
    /\ proxy_url = [f \in Flows |-> None]
    /\ pc = [f \in Flows |-> "idle"]
    /\ local = [f \in Flows |-> NoLocals]
    /\ result = [f \in Flows |-> NotStarted]
    /\ entry_check = [f \in Flows |-> "pending"]
    /\ trace = [f \in Flows |-> <<>>]
    /\ last = [f \in Flows |-> Submission("none", 0, NoOutcome)]
    /\ get_proxies = [f \in Flows |-> {}]
    /\ options = EmptyDict
    /\ options_result = NoOptionsFlow

\* One wizard run against that entry: the entry check skips to the player
\* form, which is submitted with any padded tag.
NextTags ==
    \/ async_step_user("f1")
    \/ \E user_input \in PaddedPlayerInputs : async_step_player("f1", user_input)
    \/ \E outcome \in PlayerOutcomes : async_step_player_resumed("f1", outcome)

SpecTags == InitTags /\ [][NextTags]_vars

\* The spellings of a stored tag '#T' the claim lists: 'T' and '#T', each
\* with no or one whitespace character before and after.
Spellings(stored) ==
    {l \o body \o r : l \in Pads, r \in Pads, body \in {stored, Tail(stored)}}

\* A stored tag of the form '#T': T is not empty, does not itself start
\* with '#' and has no whitespace at its ends.
HashT(stored) ==
    /\ Len(stored) >= 2
    /\ Head(stored) = "#"
    /\ ~startswith_hash(Tail(stored))
    /\ strip(Tail(stored)) = Tail(stored)

\* C14: when an entry with player_tag '#T' exists, submitting 'T', '#T' or
\* either with whitespace around it is answered with the player form and
\* already_configured, without a GET and without a new entry.
C14_SpellingsRejected ==
    \A i \in DOMAIN entries :
        HashT(entries[i].player_tag) =>
            \A x \in Spellings(entries[i].player_tag) :
                async_step_player("f1", [player_tag |-> x]) =>
                    /\ result'["f1"] =
                          async_show_form("player", {<<"player_tag", "already_configured">>})
                    /\ last'["f1"] = Submission("player", 0, NoOutcome)
                    /\ pc'["f1"] = "idle"
                    /\ entries' = entries

\* C14, that the check above is made on the normalized tag: every spelling
\* is an input the player form takes, and all of them normalize to '#T'.
C14_SpellingsNormalize ==
    \A i \in DOMAIN entries :
        HashT(entries[i].player_tag) =>
            \A x \in Spellings(entries[i].player_tag) :
                /\ [player_tag |-> x] \in PaddedPlayerInputs
                /\ _normalize_player_tag(x) = entries[i].player_tag
                /\ Shows("f1", "player", result["f1"].errors) =>
                      ENABLED async_step_player("f1", [player_tag |-> x])

\* C14: the two parts together.
C14_AlreadyConfiguredOnNormalizedTag ==
    [][C14_SpellingsRejected]_vars /\ []C14_SpellingsNormalize

\* C14 witness: the entry '#T' exists and a submission has been rejected as
\* already configured without a GET.
C14_Witness ==
    /\ entries = <<[api_token |-> "tokA", player_tag |-> <<"#", "T">>, proxy_url |-> None]>>
    /\ Shows("f1", "player", {<<"player_tag", "already_configured">>})
    /\ last["f1"] = Submission("player", 0, NoOutcome)

\* No whitespace at either end of a tag.
Trimmed(s) == s = <<>> \/ (Head(s) \notin Whitespace /\ s[Len(s)] \notin Whitespace)

\* C18, the function: normalizing a normalized tag changes nothing, and a
\* normalized tag has no whitespace at its ends.
C18_Function ==
    \A x \in PaddedTags :
        LET n == _normalize_player_tag(x)
        IN  /\ _normalize_player_tag(n) = n
            /\ Trimmed(n)

\* C18: _normalize_player_tag is idempotent and its result is trimmed, for
\* every string and so for the tag of every lookup in flight and of every
\* stored entry.
C18_NormalizeIdempotent ==
    /\ C18_Function
    /\ \A f \in Flows :
          pc[f] = "player_get" =>
              /\ _normalize_player_tag(local[f].player_tag) = local[f].player_tag
              /\ Trimmed(local[f].player_tag)
    /\ \A i \in DOMAIN entries :
          /\ _normalize_player_tag(entries[i].player_tag) = entries[i].player_tag
          /\ Trimmed(entries[i].player_tag)

\* C18 witness: a lookup is in flight for '#T', which is what 'T', '#T' and
\* their padded spellings normalize to, and the first entry holds another tag.
C18_Witness ==
    /\ pc["f1"] = "player_get"
    /\ local["f1"].player_tag = <<"#", "T">>
    /\ \A x \in Spellings(<<"#", "T">>) : _normalize_player_tag(x) = <<"#", "T">>
    /\ entries[1].player_tag = <<"#", "#">>

\* The proxy an entry was configured with, if any.
HasConfiguredProxy(data) == "proxy_url" \in DOMAIN data /\ data.proxy_url # None

\* C17 as stated, the form: the interval defaults to the stored option or
\* 300, the proxy URL to the stored option, else the entry's configured
\* proxy_url, else the empty string.
C17_OptionsFormDefaults ==
    options_result.type = "form" =>
        /\ options_result.step_id = "init"
        /\ options_result.defaults.interval =
              IF "interval" \in DOMAIN options THEN options.interval ELSE DefaultInterval
        /\ options_result.defaults.proxy_url =
              IF "proxy_url" \in DOMAIN options THEN options.proxy_url
              ELSE IF HasConfiguredProxy(entries[1]) THEN entries[1].proxy_url
              ELSE ""

\* C17, where the code differs: for an entry the wizard created with the
\* proxy left out, the form's proxy default is None.
C17_NoneDefault ==
    /\ options_result.type = "form"
    /\ options = EmptyDict
    /\ "proxy_url" \in DOMAIN entries[1] /\ entries[1].proxy_url = None
    /\ options_result.defaults.proxy_url = None

\* C17, the part the code does have, the form: the defaults are the stored
\* options where there are any, 300 for the interval, and for the proxy the
\* value under the entry's proxy_url key, "" only when the key is missing.
C17_DefaultsFromKey ==
    options_result.type = "form" =>
        /\ options_result.defaults.interval =
              IF "interval" \in DOMAIN options THEN options.interval ELSE DefaultInterval
        /\ options_result.defaults.proxy_url =
              IF "proxy_url" \in DOMAIN options THEN options.proxy_url
              ELSE IF "proxy_url" \in DOMAIN entries[1] THEN entries[1].proxy_url
              ELSE ""

\* C17, the part the code does have, the submission: the submitted values
\* become the options unchanged, no GET is issued and the entry's data is
\* left alone.
C17_SubmitFrame ==
    \A user_input \in OptionInputs :
        async_step_init(user_input) =>
            /\ options' = user_input
            /\ options_result'.type = "create_entry"
            /\ options_result'.data = user_input
            /\ entries' = entries
            /\ get_proxies' = get_proxies /\ pc' = pc /\ last' = last

C17_SubmitStoresOptions == [][C17_SubmitFrame]_vars

\* C17: an options form has been submitted and its values are the options.
C17_Submitted ==
    /\ options_result.type = "create_entry"
    /\ options = [interval |-> 60, proxy_url |-> "http://p2"]
    /\ Get(entries[1], "proxy_url") = "http://p1"

============================================================================
